---- MODULE Spec2Model ----
\* A model of metagoblin: the range classifier (src/src/lib.rs) and the
\* command-line tool that prints the file ranges (src/src/main.rs).
EXTENDS Integers, Sequences, FiniteSets, TLC

VARIABLES goblin, pc, i, franges, memranges, stdout, arg, ret

vars == <<goblin, pc, i, franges, memranges, stdout, arg, ret>>

\* ------------------------------------------------------------------ bounds

\* Width of an address in bits: u64 arithmetic is modelled at this width.
AddrBits == 3
\* Largest number of structural entries (program + section headers) of an object.
MaxHeaders == 2

U64Max == 2^AddrBits - 1
U64 == 0..U64Max

\* ------------------------------------------------------- goblin's constants

PT_LOAD == 1
PT_DYNAMIC == 2
PT_INTERP == 3
PT_NOTE == 4
PT_PHDR == 6
\* Type codes the classifier does not name: PT_NULL, PT_SHLIB, PT_TLS, PT_GNU_STACK.
OtherPTypes == {0, 5, 7, 1685382481}
PTypes == {PT_PHDR, PT_INTERP, PT_NOTE, PT_DYNAMIC, PT_LOAD} \cup OtherPTypes

PF_X == 1
PF_W == 2
PF_R == 4

SHT_PROGBITS == 1
SHT_SYMTAB == 2
SHT_STRTAB == 3
SHT_RELA == 4
SHT_DYNAMIC == 6
SHT_NOTE == 7
SHT_NOBITS == 8
SHT_REL == 9
SHT_DYNSYM == 11
SHT_INIT_ARRAY == 14
SHT_FINI_ARRAY == 15
\* Type codes the classifier does not name: SHT_NULL, SHT_HASH, SHT_GNU_HASH.
OtherShTypes == {0, 5, 1879048182}
CodeShTypes == {SHT_PROGBITS, SHT_FINI_ARRAY, SHT_INIT_ARRAY}
ShTypes == {SHT_NOTE, SHT_REL, SHT_RELA, SHT_DYNAMIC, SHT_SYMTAB, SHT_DYNSYM,
            SHT_STRTAB, SHT_NOBITS} \cup CodeShTypes \cup OtherShTypes

SHF_WRITE == 1
SHF_ALLOC == 2
SHF_EXECINSTR == 4

Flags == 0..7

\* flags & bit != 0, for a single-bit mask
HasBit(flags, bit) == (flags \div bit) % 2 = 1

\* ------------------------------------------------------------ Option<T>

None == [some |-> FALSE]
Some(v) == [some |-> TRUE, val |-> v]

\* u64::saturating_sub and u64::saturating_add at the modelled width
SaturatingSub(a, b) == IF a >= b THEN a - b ELSE 0
SaturatingAdd(a, b) == IF a + b > U64Max THEN U64Max ELSE a + b

\* ------------------------------------------------------------ MRange

MRangeNew(start, end) == [min |-> start, max |-> end]

MRangeLenWrapping(r) == (r.max - r.min) % (U64Max + 1)

MRangeLen(r) == SaturatingSub(r.max, r.min)

MRangeFrom(range) == MRangeNew(range[1], range[2])

\* ------------------------------------------------------------ Permissions

PermissionsNew(read, write, execute) == <<read, write, execute>>
Read(p) == p[1]
Write(p) == p[2]
Execute(p) == p[3]

PermissionsDisplaySwapped(p) ==
    (IF Write(p) THEN "W" ELSE "") \o (IF Read(p) THEN "R" ELSE "")
        \o (IF Execute(p) THEN "+X" ELSE "")

PermissionsDisplay(p) ==
    LET s0 == ""
        s1 == IF Read(p) THEN s0 \o "R" ELSE s0
        s2 == IF Write(p) THEN s1 \o "W" ELSE s1
        s3 == IF Execute(p) THEN s2 \o "+X" ELSE s2
    IN s3

\* goblin's ProgramHeader::is_read / is_write / is_executable
PhdrIsRead(phdr) == HasBit(phdr.p_flags, PF_R)
PhdrIsWrite(phdr) == HasBit(phdr.p_flags, PF_W)
PhdrIsExecutable(phdr) == HasBit(phdr.p_flags, PF_X)

\* goblin's SectionHeader::is_alloc / is_writable / is_executable
ShdrIsAlloc(shdr) == HasBit(shdr.sh_flags, SHF_ALLOC)
ShdrIsWritable(shdr) == HasBit(shdr.sh_flags, SHF_WRITE)
ShdrIsExecutable(shdr) == HasBit(shdr.sh_flags, SHF_EXECINSTR)

PermissionsFromPhdr(phdr) ==
    PermissionsNew(PhdrIsRead(phdr), PhdrIsWrite(phdr), PhdrIsExecutable(phdr))

PermissionsFromShdrSwapped(shdr) ==
    PermissionsNew(ShdrIsWritable(shdr), ShdrIsAlloc(shdr), ShdrIsExecutable(shdr))

PermissionsFromShdr(shdr) ==
    PermissionsNew(ShdrIsAlloc(shdr), ShdrIsWritable(shdr), ShdrIsExecutable(shdr))

\* ------------------------------------------------------------ Segment

SegmentNew(permissions) == [permissions |-> permissions, alignment |-> None]

\* ------------------------------------------------------------ MetaData

\* goblin's program_header::pt_to_str
PtToStr(p_type) ==
    CASE p_type = 0 -> "PT_NULL"
      [] p_type = PT_LOAD -> "PT_LOAD"
      [] p_type = PT_DYNAMIC -> "PT_DYNAMIC"
      [] p_type = PT_INTERP -> "PT_INTERP"
      [] p_type = PT_NOTE -> "PT_NOTE"
      [] p_type = 5 -> "PT_SHLIB"
      [] p_type = PT_PHDR -> "PT_PHDR"
      [] p_type = 7 -> "PT_TLS"
      [] p_type = 1685382481 -> "PT_GNU_STACK"
      [] OTHER -> "UNKNOWN_PT"

MetaDataFromPhdrAlwaysMemory(phdr) ==
    [name |-> Some(PtToStr(phdr.p_type)),
     tag |-> IF phdr.p_type = PT_LOAD THEN "Code" ELSE "Unknown",
     memory |-> Some(SegmentNew(PermissionsFromPhdr(phdr)))]

MetaDataFromPhdr(phdr) ==
    LET name == Some(PtToStr(phdr.p_type))
        tag == CASE phdr.p_type = PT_PHDR -> "Meta"
                 [] phdr.p_type = PT_INTERP -> "ASCII"
                 [] phdr.p_type = PT_NOTE -> "ASCII"
                 [] phdr.p_type = PT_DYNAMIC -> "Meta"
                 [] phdr.p_type = PT_LOAD -> "Code"
                 [] OTHER -> "Unknown"
        memory == IF phdr.p_type = PT_LOAD
                  THEN Some(SegmentNew(PermissionsFromPhdr(phdr)))
                  ELSE None
    IN [name |-> name, tag |-> tag, memory |-> memory]

MetaDataFromShdr(shdr) ==
    LET name == None
        tag == CASE shdr.sh_type = SHT_NOTE -> "ASCII"
                 [] shdr.sh_type \in {SHT_REL, SHT_RELA} -> "Relocation"
                 [] shdr.sh_type = SHT_DYNAMIC -> "Meta"
                 [] shdr.sh_type \in {SHT_SYMTAB, SHT_DYNSYM} -> "SymbolTable"
                 [] shdr.sh_type = SHT_STRTAB -> "StringTable"
                 [] shdr.sh_type = SHT_NOBITS -> "Zero"
                 [] shdr.sh_type \in {SHT_PROGBITS, SHT_FINI_ARRAY, SHT_INIT_ARRAY} -> "Code"
                 [] OTHER -> "Unknown"
        memory == IF shdr.sh_type = SHT_NOBITS
                     \/ shdr.sh_type \in {SHT_PROGBITS, SHT_FINI_ARRAY, SHT_INIT_ARRAY}
                  THEN Some(SegmentNew(PermissionsFromShdr(shdr)))
                  ELSE None
    IN [name |-> name, tag |-> tag, memory |-> memory]

\* MetaData::name
MetaDataName(data) == data.name

\* ------------------------------------------------- goblin's range accessors

\* ProgramHeader::file_range and ProgramHeader::vm_range
PhdrFileRange(phdr) == <<phdr.p_offset, SaturatingAdd(phdr.p_offset, phdr.p_filesz)>>
PhdrVmRange(phdr) == <<phdr.p_vaddr, SaturatingAdd(phdr.p_vaddr, phdr.p_memsz)>>

ShdrFileRangeAlways(shdr) ==
    Some(<<shdr.sh_offset, SaturatingAdd(shdr.sh_offset, shdr.sh_size)>>)

\* SectionHeader::file_range (None for a no-bits section) and SectionHeader::vm_range
ShdrFileRange(shdr) ==
    IF shdr.sh_type = SHT_NOBITS
    THEN None
    ELSE Some(<<shdr.sh_offset, SaturatingAdd(shdr.sh_offset, shdr.sh_size)>>)
ShdrVmRange(shdr) == <<shdr.sh_addr, SaturatingAdd(shdr.sh_addr, shdr.sh_size)>>

\* Strtab::get_unsafe: the string at an offset, None when the offset is invalid
StrtabGetUnsafe(strtab, offset) ==
    IF offset \in DOMAIN strtab THEN Some(strtab[offset]) ELSE None

\* ------------------------------------------------------------ inputs

Phdr(t, f, shape) ==
    [p_type |-> t, p_flags |-> f, p_offset |-> shape[1], p_filesz |-> shape[2],
     p_vaddr |-> shape[3], p_memsz |-> shape[4]]

\* <<p_offset, p_filesz, p_vaddr, p_memsz>>
PhdrNormal == <<1, 2, 1, 2>>
PhdrNoFile == <<0, 0, 1, 2>>
PhdrEmpty == <<0, 0, 0, 0>>

\* The program headers an object is built from: loadable segments with every
\* flag combination, one header of every other class of type code, and headers with no
\* file bytes (PT_GNU_STACK is one in every Linux executable).
ProgramHeaders ==
    {Phdr(PT_LOAD, f, PhdrNormal) : f \in Flags}
    \cup {Phdr(PT_LOAD, PF_R + PF_W, PhdrNoFile)}
    \cup {Phdr(t, PF_R, PhdrNormal) : t \in {PT_PHDR, PT_INTERP, PT_NOTE, PT_DYNAMIC, 0}}
    \cup {Phdr(1685382481, PF_R + PF_W, PhdrEmpty)}

Shdr(t, f, n, shape) ==
    [sh_type |-> t, sh_flags |-> f, sh_name |-> n, sh_offset |-> shape[1],
     sh_addr |-> shape[2], sh_size |-> shape[3]]

\* <<sh_offset, sh_addr, sh_size>>
ShdrNormal == <<1, 1, 2>>
ShdrZeroSize == <<1, 1, 0>>

\* The section-name string table of every modelled object, and the offsets
\* section headers declare: one inside the table, one outside it.
ShdrStrtab == [o \in {1} |-> ".sec"]
NameValid == 1
NameInvalid == 5

\* The section headers an object is built from: every type code with a
\* non-zero size, the memory-bearing types with the single-bit, empty and full
\* flag sets (program bits with all eight), zero-size sections of each class of
\* type code, and a section whose name offset is outside the string table.
SectionHeaders ==
    {Shdr(SHT_PROGBITS, f, NameValid, ShdrNormal) : f \in Flags}
    \cup {Shdr(t, f, NameValid, ShdrNormal) :
            t \in {SHT_INIT_ARRAY, SHT_FINI_ARRAY, SHT_NOBITS},
            f \in {0, SHF_WRITE, SHF_ALLOC, SHF_EXECINSTR, 7}}
    \cup {Shdr(t, SHF_ALLOC, NameValid, ShdrNormal) :
            t \in ShTypes \ (CodeShTypes \cup {SHT_NOBITS})}
    \cup {Shdr(t, 7, NameValid, ShdrZeroSize) :
            t \in {SHT_PROGBITS, SHT_INIT_ARRAY, SHT_NOBITS, SHT_SYMTAB, 0}}
    \cup {Shdr(SHT_PROGBITS, 0, NameValid, ShdrZeroSize),
          Shdr(SHT_PROGBITS, SHF_ALLOC + SHF_EXECINSTR, NameInvalid, ShdrNormal)}

\* goblin's Object: the Elf variant carries the header tables the analysis
\* walks; the other variants carry their containers' own tables (a PE's
\* sections, a Mach-O's segments), which Analysis::new never reads.
OtherKinds == {"PE", "Mach", "Archive", "Unknown"}

Object(kind, phdrs, shdrs) ==
    [kind |-> kind, program_headers |-> phdrs, section_headers |-> shdrs,
     shdr_strtab |-> ShdrStrtab]

\* The header tables of an object: at most n structural entries in all.
Tables(n) ==
    UNION {[1..np -> ProgramHeaders] \X [1..ns -> SectionHeaders] :
             <<np, ns>> \in {c \in (0..n) \X (0..n) : c[1] + c[2] <= n}}

Objects ==
    {Object("Elf", t[1], t[2]) : t \in Tables(MaxHeaders)}
    \cup {Object(k, t[1], t[2]) : k \in OtherKinds, t \in Tables(1)}

\* ------------------------------------------------------------ Analysis::new

IsElfAny(object) == TRUE

\* match goblin { &Object::Elf(ref elf) => ..., _ => () }
IsElf(object) == object.kind = "Elf"

PushFront(vec, x) == <<x>> \o vec

\* Vec::push
Push(vec, x) == Append(vec, x)

\* The (MRange, MetaData) pairs one program header pushes.
PhdrFileRecord(phdr) == <<MRangeFrom(PhdrFileRange(phdr)), MetaDataFromPhdr(phdr)>>
PhdrMemRecord(phdr) == <<MRangeFrom(PhdrVmRange(phdr)), MetaDataFromPhdr(phdr)>>

\* The MetaData of a section, its name resolved in the string table.
ShdrTag(elf, shdr) ==
    [MetaDataFromShdr(shdr) EXCEPT
        !.name = StrtabGetUnsafe(elf.shdr_strtab, shdr.sh_name)]

\* The object of the specifications that exercise one function alone.
NoObject == Object("Unknown", <<>>, <<>>)

Init ==
    /\ goblin \in Objects
    /\ pc = "start"
    /\ i = 0
    /\ franges = <<>>
    /\ memranges = <<>>
    /\ stdout = <<>>
    /\ arg = None
    /\ ret = None

\* let mut franges, memranges = Vec::default(); match goblin
NewBegin ==
    /\ pc = "start"
    /\ franges' = <<>>
    /\ memranges' = <<>>
    /\ IF IsElf(goblin)
       THEN pc' = "phdrs" /\ i' = 1
       ELSE pc' = "analysed" /\ i' = 0
    /\ UNCHANGED <<goblin, stdout, arg, ret>>

\* for phdr in &elf.program_headers
NewPhdr ==
    /\ pc = "phdrs"
    /\ IF i <= Len(goblin.program_headers)
       THEN LET phdr == goblin.program_headers[i]
            IN /\ franges' = Push(franges, PhdrFileRecord(phdr))
               /\ memranges' = Push(memranges, PhdrMemRecord(phdr))
               /\ i' = i + 1
               /\ pc' = pc
       ELSE /\ pc' = "shdrs"
            /\ i' = 1
            /\ UNCHANGED <<franges, memranges>>
    /\ UNCHANGED <<goblin, stdout, arg, ret>>

SkipShdrNever(shdr) == FALSE

SkipShdrNoBits(shdr) == shdr.sh_size = 0 \/ shdr.sh_type = SHT_NOBITS

\* if shdr.sh_size == 0 { continue; }
SkipShdr(shdr) == shdr.sh_size = 0

\* for shdr in &elf.section_headers
NewShdr ==
    /\ pc = "shdrs"
    /\ IF i <= Len(goblin.section_headers)
       THEN LET shdr == goblin.section_headers[i]
                vmrange == ShdrVmRange(shdr)
                tag == ShdrTag(goblin, shdr)
                range == ShdrFileRange(shdr)
            IN /\ IF SkipShdr(shdr)
                  THEN UNCHANGED <<franges, memranges>>
                  ELSE /\ franges' = IF range.some
                                     THEN Push(franges, <<MRangeFrom(range.val), tag>>)
                                     ELSE franges
                       /\ memranges' = Push(memranges, <<MRangeFrom(vmrange), tag>>)
               /\ i' = i + 1
               /\ pc' = pc
       ELSE /\ pc' = "analysed"
            /\ i' = 0
            /\ UNCHANGED <<franges, memranges>>
    /\ UNCHANGED <<goblin, stdout, arg, ret>>

\* ------------------------------------------------------------ main.rs: run

\* One printed line of run's loop over analysis.franges.
Line(range, data, len) ==
    [min |-> range.min, max |-> range.max, len |-> len, tag |-> data.tag,
     name |-> IF MetaDataName(data).some THEN MetaDataName(data).val ELSE "None",
     perms |-> IF data.memory.some
               THEN Some(PermissionsDisplay(data.memory.val.permissions))
               ELSE None]

\* range.len() - 1 in u64: the difference, or nothing when it overflows and the
\* build checks overflow (a panic); a build without the checks wraps around.
LenMinusOne(range, overflow_checks) ==
    IF MRangeLen(range) >= 1
    THEN Some(MRangeLen(range) - 1)
    ELSE IF overflow_checks THEN None ELSE Some(U64Max)

RECURSIVE PrintFranges(_, _, _)
\* The lines printed for records k.. of rs, and whether the loop panicked.
PrintFranges(rs, k, overflow_checks) ==
    IF k > Len(rs)
    THEN [lines |-> <<>>, panicked |-> FALSE]
    ELSE LET len == LenMinusOne(rs[k][1], overflow_checks)
         IN IF ~len.some
            THEN [lines |-> <<>>, panicked |-> TRUE]
            ELSE LET rest == PrintFranges(rs, k + 1, overflow_checks)
                 IN [lines |-> <<Line(rs[k][1], rs[k][2], len.val)>> \o rest.lines,
                     panicked |-> rest.panicked]

\* for (range, data) in analysis.franges.iter() { print!(...) }
Run ==
    /\ pc = "analysed"
    /\ \E overflow_checks \in BOOLEAN :
          LET out == PrintFranges(franges, 1, overflow_checks)
          IN /\ stdout' = out.lines
             /\ pc' = IF out.panicked THEN "panicked" ELSE "printed"
    /\ UNCHANGED <<goblin, i, franges, memranges, arg, ret>>

Next == NewBegin \/ NewPhdr \/ NewShdr \/ Run

Spec == Init /\ [][Next]_vars

\* ------------------------------------------------------------ MRange::len alone

InitLen ==
    /\ goblin = NoObject
    /\ pc = "len"
    /\ i = 0
    /\ franges = <<>>
    /\ memranges = <<>>
    /\ stdout = <<>>
    /\ arg \in {MRangeNew(min, max) : min \in U64, max \in U64}
    /\ ret = None

\* range.len()
CallLen ==
    /\ pc = "len"
    /\ ret' = Some(MRangeLen(arg))
    /\ pc' = "returned"
    /\ UNCHANGED <<goblin, i, franges, memranges, stdout, arg>>

NextLen == CallLen

SpecLen == InitLen /\ [][NextLen]_vars

\* ------------------------------------------- the classifier and Display alone

\* One header of every type code with every flag combination.
ProbePhdrs == {Phdr(t, f, PhdrNormal) : t \in PTypes, f \in Flags}
ProbeShdrs == {Shdr(t, f, NameValid, ShdrNormal) : t \in ShTypes, f \in Flags}

InitClassify ==
    /\ goblin = NoObject
    /\ pc = "classify"
    /\ i = 0
    /\ franges = <<>>
    /\ memranges = <<>>
    /\ stdout = <<>>
    /\ arg \in ({"phdr"} \X ProbePhdrs) \cup ({"shdr"} \X ProbeShdrs)
    /\ ret = None

\* let tag: MetaData = phdr.into()
ClassifyPhdr ==
    /\ pc = "classify"
    /\ arg[1] = "phdr"
    /\ ret' = Some(MetaDataFromPhdr(arg[2]))
    /\ pc' = "classified"
    /\ UNCHANGED <<goblin, i, franges, memranges, stdout, arg>>

\* let mut tag = MetaData::from(shdr)
ClassifyShdr ==
    /\ pc = "classify"
    /\ arg[1] = "shdr"
    /\ ret' = Some(MetaDataFromShdr(arg[2]))
    /\ pc' = "classified"
    /\ UNCHANGED <<goblin, i, franges, memranges, stdout, arg>>

\* if let &Some(ref segment) = &data.memory { print!(" : {}", segment.permissions) }
ShowPermissions ==
    /\ pc = "classified"
    /\ ret.val.memory.some
    /\ stdout' = <<PermissionsDisplay(ret.val.memory.val.permissions)>>
    /\ pc' = "shown"
    /\ UNCHANGED <<goblin, i, franges, memranges, arg, ret>>

NextClassify == ClassifyPhdr \/ ClassifyShdr \/ ShowPermissions

SpecClassify == InitClassify /\ [][NextClassify]_vars

\* ------------------------------------------------------------ claims

\* The loop of Analysis::new is handling a header in this step (the step that
\* leaves the loop changes pc).
PhdrStep == pc = "phdrs" /\ pc' = "phdrs"
ShdrStep == pc = "shdrs" /\ pc' = "shdrs"
CurPhdr == goblin.program_headers[i]
CurShdr == goblin.section_headers[i]
Built == pc \in {"analysed", "printed", "panicked"}

\* C1, as stated: every structural entry (program header or section header)
\* handled by Analysis::new adds exactly one record to memranges and at most
\* one record to franges.
C1_EveryEntryOneMemRecord ==
    [][(PhdrStep \/ ShdrStep) =>
          /\ Len(memranges') = Len(memranges) + 1
          /\ Len(franges') \in {Len(franges), Len(franges) + 1}]_vars

\* C1, amended: every program header and every section header of non-zero
\* declared size adds exactly one record to memranges and at most one record
\* to franges; a section header of declared size zero adds none to either.
C1_EveryRetainedEntryOneMemRecord ==
    [][/\ (PhdrStep \/ (ShdrStep /\ CurShdr.sh_size # 0)) =>
             /\ Len(memranges') = Len(memranges) + 1
             /\ Len(franges') \in {Len(franges), Len(franges) + 1}
       /\ (ShdrStep /\ CurShdr.sh_size = 0) =>
             /\ Len(memranges') = Len(memranges)
             /\ Len(franges') = Len(franges)]_vars

C1_Witness ==
    /\ pc = "analysed"
    /\ IsElf(goblin)
    /\ Len(goblin.program_headers) = 1
    /\ Len(goblin.section_headers) = 1
    /\ goblin.section_headers[1].sh_size # 0
    /\ goblin.section_headers[1].sh_type = SHT_NOBITS
    /\ Len(memranges) = 2
    /\ Len(franges) = 1

\* C2: a section header whose declared size is 0 adds no record to memranges
\* and no record to franges, whatever its type code and flags.
C2_ZeroSizeSectionSkipped ==
    [][(ShdrStep /\ CurShdr.sh_size = 0) =>
          (franges' = franges /\ memranges' = memranges)]_vars

C2_Witness ==
    /\ pc = "analysed"
    /\ IsElf(goblin)
    /\ Len(goblin.section_headers) = 2
    /\ goblin.section_headers[1].sh_size = 0
    /\ goblin.section_headers[1].sh_type = SHT_PROGBITS
    /\ goblin.section_headers[2].sh_size = 0
    /\ goblin.section_headers[2].sh_type = SHT_NOBITS
    /\ franges = <<>>
    /\ memranges = <<>>

\* C3: a no-bits section header of non-zero declared size adds exactly one
\* record to memranges, tagged Zero and carrying a Segment, and no record to
\* franges.
C3_NoBitsMemoryOnly ==
    [][(ShdrStep /\ CurShdr.sh_type = SHT_NOBITS /\ CurShdr.sh_size # 0) =>
          /\ franges' = franges
          /\ Len(memranges') = Len(memranges) + 1
          /\ SubSeq(memranges', 1, Len(memranges)) = memranges
          /\ memranges'[Len(memranges')][2].tag = "Zero"
          /\ memranges'[Len(memranges')][2].memory.some]_vars

C3_Witness ==
    /\ pc = "analysed"
    /\ IsElf(goblin)
    /\ goblin.program_headers = <<>>
    /\ Len(goblin.section_headers) = 1
    /\ goblin.section_headers[1].sh_type = SHT_NOBITS
    /\ goblin.section_headers[1].sh_size # 0
    /\ franges = <<>>
    /\ Len(memranges) = 1
    /\ memranges[1][2].tag = "Zero"
    /\ memranges[1][2].memory.some

\* The permissions the claims expect of a flag word, bit by bit.
FlagSet(flags, values) == flags \in values
ExpectedShdrPermissions(shdr) ==
    <<FlagSet(shdr.sh_flags, {2, 3, 6, 7}), FlagSet(shdr.sh_flags, {1, 3, 5, 7}),
      FlagSet(shdr.sh_flags, {4, 5, 6, 7})>>
ExpectedPhdrPermissions(phdr) ==
    <<FlagSet(phdr.p_flags, {4, 5, 6, 7}), FlagSet(phdr.p_flags, {2, 3, 6, 7}),
      FlagSet(phdr.p_flags, {1, 3, 5, 7})>>

C5_PhdrMemoryIffLoad ==
    (pc \in {"classified", "shown"} /\ arg[1] = "phdr") =>
        LET phdr == arg[2]
            data == ret.val
        IN /\ data.memory.some <=> phdr.p_type = 1
           /\ phdr.p_type = 1 =>
                 /\ data.tag = "Code"
                 /\ data.memory.val.permissions = ExpectedPhdrPermissions(phdr)
           /\ phdr.p_type # 1 => data.memory = None
           /\ phdr.p_type \notin {1, 2, 3, 4, 6} => data.tag = "Unknown"

C5_Witness ==
    /\ pc = "classified"
    /\ arg[1] = "phdr"
    /\ arg[2].p_type = PT_LOAD
    /\ arg[2].p_flags = PF_R + PF_X
    /\ ret.val.tag = "Code"
    /\ ret.val.memory.some
    /\ ret.val.memory.val.permissions = <<TRUE, FALSE, TRUE>>

\* C6: when the object is not the Elf variant, the Analysis returned has
\* franges empty and memranges empty, and nothing fails.
C6_UnsupportedKindEmpty ==
    (Built /\ goblin.kind # "Elf") =>
        (franges = <<>> /\ memranges = <<>> /\ pc # "panicked")

C6_Witness ==
    /\ pc = "analysed"
    /\ goblin.kind = "PE"
    /\ Len(goblin.section_headers) = 1
    /\ goblin.section_headers[1].sh_size # 0
    /\ franges = <<>>
    /\ memranges = <<>>

\* The rendering the claim gives for each combination of the three flags.
ExpectedDisplay(p) ==
    CASE p = <<FALSE, FALSE, FALSE>> -> ""
      [] p = <<TRUE, FALSE, FALSE>> -> "R"
      [] p = <<FALSE, TRUE, FALSE>> -> "W"
      [] p = <<TRUE, TRUE, FALSE>> -> "RW"
      [] p = <<FALSE, FALSE, TRUE>> -> "+X"
      [] p = <<TRUE, FALSE, TRUE>> -> "R+X"
      [] p = <<FALSE, TRUE, TRUE>> -> "W+X"
      [] p = <<TRUE, TRUE, TRUE>> -> "RW+X"

\* C7: the Display rendering of Permissions is "R" if read, then "W" if write,
\* then "+X" if execute, and nothing else.
C7_DisplayConcatenation ==
    pc = "shown" =>
        stdout = <<ExpectedDisplay(ret.val.memory.val.permissions)>>

C7_Witness ==
    /\ pc = "shown"
    /\ ret.val.memory.val.permissions = <<TRUE, TRUE, TRUE>>
    /\ stdout = <<"RW+X">>

\* C8: MRange::len returns max - min when max >= min and 0 when max < min; the
\* result is never out of the unsigned range.
C8_LenSaturates ==
    pc = "returned" =>
        /\ ret.val \in U64
        /\ arg.max >= arg.min => ret.val + arg.min = arg.max
        /\ arg.max < arg.min => ret.val = 0

C8_Witness ==
    /\ pc = "returned"
    /\ arg.max < arg.min
    /\ arg.min = U64Max
    /\ ret = Some(0)

\* The sections among the first n that are kept, in declared order: all of
\* non-zero size in memranges, and of those the ones with file bytes in franges.
KeptInMem(n) ==
    SelectSeq(SubSeq(goblin.section_headers, 1, n), LAMBDA sh : sh.sh_size # 0)
KeptInFile(n) ==
    SelectSeq(SubSeq(goblin.section_headers, 1, n),
              LAMBDA sh : sh.sh_size # 0 /\ sh.sh_type # 8)
\* How many program headers and section headers have been handled.
PhdrsDone == IF pc = "phdrs" THEN i - 1 ELSE Len(goblin.program_headers)
ShdrsDone == IF pc = "shdrs" THEN i - 1
             ELSE IF pc = "phdrs" THEN 0 ELSE Len(goblin.section_headers)

\* C9: franges and memranges hold their records in insertion order: the
\* program headers' records in declared order, then the retained sections'
\* records in declared order; nothing is removed, merged or reordered, so
\* entries with identical ranges stay distinct records.
C9_InsertionOrder ==
    (IsElf(goblin) /\ pc # "start") =>
        /\ Len(memranges) = PhdrsDone + Len(KeptInMem(ShdrsDone))
        /\ Len(franges) = PhdrsDone + Len(KeptInFile(ShdrsDone))
        /\ \A k \in 1..PhdrsDone :
              LET phdr == goblin.program_headers[k]
              IN /\ memranges[k][1] = [min |-> phdr.p_vaddr, max |-> PhdrVmRange(phdr)[2]]
                 /\ franges[k][1] = [min |-> phdr.p_offset, max |-> PhdrFileRange(phdr)[2]]
                 /\ memranges[k][2] = MetaDataFromPhdr(phdr)
                 /\ franges[k][2] = memranges[k][2]
        /\ \A k \in 1..Len(KeptInMem(ShdrsDone)) :
              LET shdr == KeptInMem(ShdrsDone)[k]
                  rec == memranges[PhdrsDone + k]
              IN /\ rec[1] = [min |-> shdr.sh_addr, max |-> ShdrVmRange(shdr)[2]]
                 /\ rec[2] = ShdrTag(goblin, shdr)
        /\ \A k \in 1..Len(KeptInFile(ShdrsDone)) :
              LET shdr == KeptInFile(ShdrsDone)[k]
                  rec == franges[PhdrsDone + k]
              IN /\ rec[1] = [min |-> shdr.sh_offset, max |-> ShdrFileRange(shdr).val[2]]
                 /\ rec[2] = ShdrTag(goblin, shdr)

C9_Witness ==
    /\ pc = "analysed"
    /\ IsElf(goblin)
    /\ Len(goblin.program_headers) = 1
    /\ Len(goblin.section_headers) = 1
    /\ Len(franges) = 2
    /\ Len(memranges) = 2
    /\ franges[1][1] = franges[2][1]
    /\ memranges[1][1] = memranges[2][1]
    /\ franges[1][2].tag = "Code"
    /\ franges[2][2].tag = "Code"

\* C10: every record of franges the tool prints has range.len() >= 1, so the
\* printed length range.len() - 1 never underflows.
C10_PrintedLenNeverUnderflows ==
    Built =>
        /\ \A k \in 1..Len(franges) : MRangeLen(franges[k][1]) >= 1
        /\ pc # "panicked"
        /\ pc = "printed" =>
              \A k \in 1..Len(stdout) : stdout[k].len = MRangeLen(franges[k][1]) - 1

====
